---- MODULE Spec2Model ----
(***************************************************************************)
(* The build-and-run engine of the benchmark harness (package main):       *)
(* Configuration.createFilesForLater, Configuration.compileOne,            *)
(* Configuration.runOtherBenchmarks and Configuration.runBinary with its   *)
(* two stream drainers.                                                    *)
(***************************************************************************)
EXTENDS Integers, Sequences, FiniteSets, TLC

\* ------------------------------------------------------------------------
\* Bounds of the model
\* ------------------------------------------------------------------------

\* most bytes of output, over both streams, the children run through
\* runBinary in one behaviour produce together
MaxOut == 3

\* most bytes the cache-clear commands of one behaviour write to the sinks
MaxCleanOut == 1

\* most BenchStats a configuration accumulates: compileOne is not called for a
\* configuration that has that many
MaxStats == 1

\* ------------------------------------------------------------------------
\* The configurations and benchmarks handed to the engine
\* ------------------------------------------------------------------------

Configs == {"c1", "c2"}

Benchs == {"b1"}

\* Configuration.AfterBuild of each configuration
AfterBuild(c) == IF c = "c1" THEN <<"size", "nm">> ELSE <<>>

\* the files of one configuration: thingBenchName(suffix), lines 45-54
FileNames == {"build", "size", "nm"}

\* a file that does not exist, and a file just created by os.Create
NoFile == [exists |-> FALSE, data |-> <<>>]
EmptyFile == [exists |-> TRUE, data |-> <<>>]

\* the settings of the engine's inputs: the global explicitAll, and what
\* getenv(config.GcEnv, "GOARCH") is for each configuration (line 235): ""
\* when unset, "host" for runtime.GOARCH, "other" for another architecture
Inputs ==
    { [explicitAll |-> 0, goarch |-> [c \in Configs |-> IF c = "c1" THEN "other" ELSE ""]],
      [explicitAll |-> 1, goarch |-> [c \in Configs |-> IF c = "c1" THEN "host" ELSE "other"]] }

\* ------------------------------------------------------------------------
\* State
\* ------------------------------------------------------------------------

\* the two output streams of a child process; the drainer of stdout signals
\* on doneS, the drainer of stderr on doneE
Streams == {"stdout", "stderr"}

\* a byte of output is a line terminator or any other byte
Bytes == {"nl", "x"}

\* the longest Benchmark.GcEnv and Configuration.GcEnv looked at
MaxEnv == 2

\* environment variables: the two the engine sets itself, and another one
EnvKeys == {"GOOS", "GOROOT", "K"}

\* the values the override lists give them
EnvValues == {"a", "b"}

\* the override lists: sequences of key=value
EnvLists == UNION {[1..n -> EnvKeys \X EnvValues] : n \in 0..MaxEnv}

\* the default environments looked at
DefaultEnvs == { <<>>, << <<"GOOS", "darwin">>, <<"GOROOT", "sys">>, <<"K", "a">> >> }

\* the outputs a child can produce on one stream
Outputs == UNION {[1..n -> Bytes] : n \in 0..MaxOut}

VARIABLES
    explicitAll,   \* the global explicitAll (-a flag)
    cfgGoArch,     \* cfgGoArch[c]: GOARCH of c.GcEnv, "" if unset
    cfgDisabled,   \* cfgDisabled[c]: Configuration.Disabled
    benchDisabled, \* benchDisabled[b]: Benchmark.Disabled
    buildStats,    \* buildStats[c]: Configuration.buildStats, names of benchmarks
    files,         \* files[c][name]: the log files of configuration c
    handles,       \* files this runOtherBenchmarks call has opened and not closed
    halted,        \* the process has called os.Exit
    coPc,          \* position of compileOne / runOtherBenchmarks, "idle" if none
    coCfg,         \* compileOne's receiver
    coBench,       \* compileOne's bench
    coCount,       \* compileOne's count
    coResult,      \* what compileOne returned last
    abIdx,         \* runOtherBenchmarks: index into AfterBuild of the loop
    trace,         \* what this compileOne call has done with external commands
    coPre,         \* the state compileOne was called in
    rbPc,          \* position of runBinary: idle, start, recvS, recvE, wait, ret
    rbCfg,         \* runBinary's receiver
    rbResult,      \* the pair runBinary returned: [diag, rc]
    proc,          \* the child process: none, running, exited
    out,           \* out[d]: everything the child writes to stream d
    closed,        \* closed[d]: the write end of stream d has been closed
    rpos,          \* rpos[d]: bytes of stream d the drainer's reader has consumed
    dr,            \* dr[d]: the drainer goroutine of stream d (pc, chunk, err, nw)
    errOf,         \* errOf[d]: the value received from the drainer's done channel
    mu,            \* the mutex of this invocation: "free" or the holding stream
    sink,          \* sink[c]: bytes in c.benchWriter's file, tagged <<stream, index>>
    synced,        \* synced[c]: bytes of sink[c] forced to durable storage
    console,       \* chunks echoed to the console by this invocation's drainers
    sinkStart,     \* Len(sink[rbCfg]) when this invocation was entered
    produced,      \* bytes of output the children have produced so far
    defaultEnv,    \* the global defaultEnv, a sequence of <<key, value>>
    benchNotSandboxed, \* Benchmark.NotSandboxed
    rootCopy,      \* Configuration.rootCopy, "" if there is none
    benchGcEnv,    \* Benchmark.GcEnv
    cfgGcEnv,      \* Configuration.GcEnv
    cmdEnv         \* the Env of the command built last, and what it was built for

\* what the environment of a command is built from
envIn == <<defaultEnv, benchNotSandboxed, rootCopy, benchGcEnv, cfgGcEnv>>

\* the inputs of the run, and the environment built from them
inVars == <<explicitAll, cfgGoArch, envIn, cmdEnv>>

\* the state of the configurations and benchmarks
progVars == <<cfgDisabled, benchDisabled, buildStats, files, halted>>

\* the activation of compileOne
coVars == <<coPc, coCfg, coBench, coCount, coResult, abIdx, handles, trace, coPre>>

\* the activation of runBinary, its child and its drainers
rbVars == <<rbPc, rbCfg, rbResult, proc, out, closed, rpos, dr, errOf,
            mu, sink, synced, console, sinkStart, produced>>

vars == <<inVars, progVars, coVars, rbVars>>

\* what runBinary does not touch
buildVars == <<inVars, progVars, coVars>>

\* a drainer that has not been started.  from and n are the chunk `bytes` of
\* the current loop iteration (the bytes from+1..from+n of the stream), err
\* the error ReadBytes returned with it, nw what Write returned for it; short
\* records that a Write of this drainer has returned an error
DrainerOff == [pc |-> "off", from |-> 0, n |-> 0, err |-> "nil", nw |-> 0,
               short |-> FALSE]

NoResult == [diag |-> "none", rc |-> 0]

NoPre == [stats |-> <<>>, files |-> [f \in FileNames |-> NoFile],
          bDis |-> FALSE, cDis |-> FALSE]

\* no command built yet
NoCmdEnv == [for |-> "none", env |-> <<>>]

\* the engine with the environment left out of the picture
EnvUnset ==
    /\ defaultEnv = <<>>
    /\ benchNotSandboxed = FALSE
    /\ rootCopy = ""
    /\ benchGcEnv = <<>>
    /\ cfgGcEnv = <<>>
    /\ cmdEnv = NoCmdEnv

\* nothing created, nothing built, nothing running
InitState ==
    /\ cfgDisabled = [c \in Configs |-> FALSE]
    /\ benchDisabled = [b \in Benchs |-> FALSE]
    /\ buildStats = [c \in Configs |-> <<>>]
    /\ files = [c \in Configs |-> [f \in FileNames |-> NoFile]]
    /\ handles = 0
    /\ halted = FALSE
    /\ coPc = "idle"
    /\ coCfg = "c1"
    /\ coBench = "b1"
    /\ coCount = 0
    /\ coResult = ""
    /\ abIdx = 0
    /\ trace = <<>>
    /\ coPre = NoPre
    /\ rbPc = "idle"
    /\ rbCfg = "c1"
    /\ rbResult = NoResult
    /\ proc = "none"
    /\ out = [d \in Streams |-> <<>>]
    /\ closed = [d \in Streams |-> FALSE]
    /\ rpos = [d \in Streams |-> 0]
    /\ dr = [d \in Streams |-> DrainerOff]
    /\ errOf = [d \in Streams |-> "nil"]
    /\ mu = "free"
    /\ sink = [c \in Configs |-> <<>>]
    /\ synced = [c \in Configs |-> 0]
    /\ console = <<>>
    /\ sinkStart = 0
    /\ produced = 0

Init ==
    /\ \E in \in Inputs : explicitAll = in.explicitAll /\ cfgGoArch = in.goarch
    /\ InitState
    /\ EnvUnset

\* ------------------------------------------------------------------------
\* runBinary: the child process, the two drainers, the join
\* ------------------------------------------------------------------------

\* the bytes of stream d not yet consumed by its reader
Remaining(d) == SubSeq(out[d], rpos[d] + 1, Len(out[d]))

\* index of the first line terminator of s, 0 if there is none
RECURSIVE FirstNl(_)
FirstNl(s) ==
    IF s = <<>> THEN 0
    ELSE IF Head(s) = "nl" THEN 1
    ELSE LET r == FirstNl(Tail(s)) IN IF r = 0 THEN 0 ELSE r + 1

\* bufio.Reader.ReadBytes('\n') on stream d: the outcomes [n, err] it can
\* return now.  A full line with no error; the rest of the stream with io.EOF
\* once the stream is closed; or, on a failing read, the bytes buffered before
\* the failure (none up to all bytes short of the terminator) with the error.
ReadBytes(d) ==
    LET rem == Remaining(d)
        i   == FirstNl(rem)
        k   == IF i > 0 THEN i - 1 ELSE Len(rem)
    IN  (IF i > 0 THEN {[n |-> i, err |-> "nil"]} ELSE {})
        \cup (IF i = 0 /\ closed[d] THEN {[n |-> Len(rem), err |-> "EOF"]} ELSE {})
        \cup {[n |-> j, err |-> "err"] : j \in 0..k}

\* where the drainer loop goes after the write section (or after skipping it):
\* lines 330-338
AfterChunk(n, err) ==
    IF err = "EOF" \/ n = 0 THEN "sendNil"
    ELSE IF err # "nil" THEN "sendErr"
    ELSE "read"

\* what the child's termination looks like to cmd.Wait and
\* cmd.ProcessState.ExitCode (lines 350-351): exit status 0; a nonzero exit
\* status or death by signal (ExitCode -1), both an *exec.ExitError; or an
\* another error from Wait, with the exit status 0 or with no ProcessState
\* (ExitCode -1)
ExitStatuses ==
    { [err |-> "nil", rc |-> 0],
      [err |-> "ExitError", rc |-> 1],
      [err |-> "ExitError", rc |-> -1],
      [err |-> "other", rc |-> 0],
      [err |-> "other", rc |-> -1] }

\* the diagnostic runBinary returns after the join: lines 353-368
Diagnostic(waitErr, eS, eE) ==
    IF waitErr = "ExitError" THEN "Error running, stderr"
    ELSE IF waitErr # "nil" THEN "Error running"
    ELSE IF eS # "nil" THEN "Error [read stdout] running"
    ELSE IF eE # "nil" THEN "Error [read stderr] running"
    ELSE ""

\* no child, no drainers, no mutex: the locals of runBinary before line 301
\* and after its return
RbNoLocals ==
    /\ proc' = "none"
    /\ out' = [d \in Streams |-> <<>>]
    /\ closed' = [d \in Streams |-> FALSE]
    /\ rpos' = [d \in Streams |-> 0]
    /\ dr' = [d \in Streams |-> DrainerOff]
    /\ errOf' = [d \in Streams |-> "nil"]
    /\ mu' = "free"
    /\ console' = <<>>

\* entry of c.runBinary (lines 289-299)
RbEnter(c) ==
    /\ rbPc' = "start"
    /\ rbCfg' = c
    /\ rbResult' = NoResult
    /\ sinkStart' = Len(sink[c])
    /\ UNCHANGED <<proc, out, closed, rpos, dr, errOf, mu, console, sink, synced,
                   produced>>

\* runBinary's frame is gone once its result has been taken
RbLeave ==
    /\ rbPc' = "idle"
    /\ sinkStart' = 0
    /\ RbNoLocals
    /\ rbCfg' = "c1"
    /\ rbResult' = NoResult
    /\ UNCHANGED <<sink, synced, produced>>

\* lines 301-312: StdoutPipe, StderrPipe or Start fails; runBinary returns the
\* diagnostic with rc still 0 and no goroutine is started
RbAttachFail ==
    /\ rbPc = "start"
    /\ \E what \in {"stdoutpipe", "stderrpipe", "command start"} :
          rbResult' = [diag |-> "Error [" \o what \o "] running", rc |-> 0]
    /\ rbPc' = "ret"
    /\ UNCHANGED <<rbCfg, proc, out, closed, rpos, dr, errOf, mu, sink,
                   synced, console, sinkStart, produced, buildVars>>

\* lines 301-345: both pipes attached, the child started, the mutex and the
\* two channels made, the two drainers started; runBinary is at `<-doneS`
RbStart ==
    /\ rbPc = "start"
    /\ \E oS \in Outputs, oE \in Outputs :
          /\ produced + Len(oS) + Len(oE) <= MaxOut
          /\ produced' = produced + Len(oS) + Len(oE)
          /\ out' = [d \in Streams |-> IF d = "stdout" THEN oS ELSE oE]
    /\ proc' = "running"
    /\ dr' = [d \in Streams |-> [DrainerOff EXCEPT !.pc = "read"]]
    /\ mu' = "free"
    /\ rbPc' = "recvS"
    /\ UNCHANGED <<rbCfg, rbResult, closed, rpos, errOf, sink, synced,
                   console, sinkStart, buildVars>>

\* the child closes one of its output streams
ChildClose(d) ==
    /\ proc = "running"
    /\ ~closed[d]
    /\ closed' = [closed EXCEPT ![d] = TRUE]
    /\ UNCHANGED <<rbPc, rbCfg, rbResult, proc, out, rpos, dr, errOf,
                   mu, sink, synced, console, sinkStart, produced, buildVars>>

\* the child exits; its ends of both streams are closed with it
ChildExit ==
    /\ proc = "running"
    /\ proc' = "exited"
    /\ closed' = [d \in Streams |-> TRUE]
    /\ UNCHANGED <<rbPc, rbCfg, rbResult, out, rpos, dr, errOf, mu,
                   sink, synced, console, sinkStart, produced, buildVars>>

\* DrRead leaving the loop on io.EOF before the write section: the bytes that
\* came with io.EOF are not written
DrReadDropsTail(d) ==
    /\ dr[d].pc = "read"
    /\ \E r \in ReadBytes(d) :
          /\ rpos' = [rpos EXCEPT ![d] = @ + r.n]
          /\ dr' = [dr EXCEPT ![d] =
                       [pc    |-> IF r.n > 0 /\ r.err # "EOF" THEN "lock"
                                  ELSE AfterChunk(r.n, r.err),
                        from  |-> rpos[d], n |-> r.n, err |-> r.err, nw |-> 0,
                        short |-> dr[d].short]]
    /\ UNCHANGED <<rbPc, rbCfg, rbResult, proc, out, closed, errOf, mu,
                   sink, synced, console, sinkStart, produced, buildVars>>

\* lines 318-320, 330-338: one r.ReadBytes('\n') of the drainer of stream d;
\* an empty chunk skips the write section and ends the loop
DrRead(d) ==
    /\ dr[d].pc = "read"
    /\ \E r \in ReadBytes(d) :
          /\ rpos' = [rpos EXCEPT ![d] = @ + r.n]
          /\ dr' = [dr EXCEPT ![d] =
                       [pc    |-> IF r.n > 0 THEN "lock" ELSE AfterChunk(r.n, r.err),
                        from  |-> rpos[d], n |-> r.n, err |-> r.err, nw |-> 0,
                        short |-> dr[d].short]]
    /\ UNCHANGED <<rbPc, rbCfg, rbResult, proc, out, closed, errOf, mu,
                   sink, synced, console, sinkStart, produced, buildVars>>

\* DrLock without the mutex: the write section is entered at once
DrLockNoMutex(d) ==
    /\ dr[d].pc = "lock"
    /\ mu' = d
    /\ dr' = [dr EXCEPT ![d].pc = "write"]
    /\ UNCHANGED <<rbPc, rbCfg, rbResult, proc, out, closed, rpos, errOf,
                   sink, synced, console, sinkStart, produced, buildVars>>

\* line 321: mu.Lock()
DrLock(d) ==
    /\ dr[d].pc = "lock"
    /\ mu = "free"
    /\ mu' = d
    /\ dr' = [dr EXCEPT ![d].pc = "write"]
    /\ UNCHANGED <<rbPc, rbCfg, rbResult, proc, out, closed, rpos, errOf,
                   sink, synced, console, sinkStart, produced, buildVars>>

\* lines 322-325: nw, err := c.benchWriter.Write(bytes[0:n]).  One Write call
\* is atomic with respect to other Write calls on the same os.File; it puts
\* all n bytes into the file, or fails after nw < n of them (the error is
\* printed and the drainer goes on)
DrWrite(d) ==
    /\ dr[d].pc = "write"
    /\ \E nw \in 0..dr[d].n :
          /\ sink' = [sink EXCEPT ![rbCfg] =
                         @ \o [i \in 1..nw |-> <<d, dr[d].from + i>>]]
          /\ dr' = [dr EXCEPT ![d].nw = nw, ![d].pc = "sync",
                              ![d].short = @ \/ nw < dr[d].n]
    /\ UNCHANGED <<rbPc, rbCfg, rbResult, proc, out, closed, rpos, errOf,
                   mu, synced, console, sinkStart, produced, buildVars>>

\* line 326: c.benchWriter.Sync()
DrSync(d) ==
    /\ dr[d].pc = "sync"
    /\ synced' = [synced EXCEPT ![rbCfg] = Len(sink[rbCfg])]
    /\ dr' = [dr EXCEPT ![d].pc = "echo"]
    /\ UNCHANGED <<rbPc, rbCfg, rbResult, proc, out, closed, rpos, errOf,
                   mu, sink, console, sinkStart, produced, buildVars>>

\* line 327: fmt.Print(string(bytes[0:n]))
DrEcho(d) ==
    /\ dr[d].pc = "echo"
    /\ console' = Append(console, <<d, dr[d].from, dr[d].n>>)
    /\ dr' = [dr EXCEPT ![d].pc = "unlock"]
    /\ UNCHANGED <<rbPc, rbCfg, rbResult, proc, out, closed, rpos, errOf,
                   mu, sink, synced, sinkStart, produced, buildVars>>

\* DrUnlock without mu.Unlock(): the drainer goes on holding the mutex
DrUnlockKeepsMutex(d) ==
    /\ dr[d].pc = "unlock"
    /\ dr' = [dr EXCEPT ![d] =
                 IF AfterChunk(dr[d].n, dr[d].err) = "read"
                 THEN [DrainerOff EXCEPT !.pc = "read", !.short = dr[d].short]
                 ELSE [dr[d] EXCEPT !.pc = AfterChunk(dr[d].n, dr[d].err)]]
    /\ UNCHANGED <<rbPc, rbCfg, rbResult, proc, out, closed, rpos, errOf, mu,
                   sink, synced, console, sinkStart, produced, buildVars>>

\* lines 328-338: mu.Unlock(), then the loop's exit tests
DrUnlock(d) ==
    /\ dr[d].pc = "unlock"
    /\ mu' = "free"
    /\ dr' = [dr EXCEPT ![d] =
                 IF AfterChunk(dr[d].n, dr[d].err) = "read"
                 THEN [DrainerOff EXCEPT !.pc = "read", !.short = dr[d].short]
                 ELSE [dr[d] EXCEPT !.pc = AfterChunk(dr[d].n, dr[d].err)]]
    /\ UNCHANGED <<rbPc, rbCfg, rbResult, proc, out, closed, rpos, errOf,
                   sink, synced, console, sinkStart, produced, buildVars>>

\* a receive of runBinary from the unbuffered channel of drainer d meeting that
\* drainer's send (`done <- err` on line 334, `done <- nil` on line 338)
Recv(d, at, next) ==
    /\ rbPc = at
    /\ dr[d].pc \in {"sendNil", "sendErr"}
    /\ errOf' = [errOf EXCEPT ![d] = IF dr[d].pc = "sendErr" THEN "err" ELSE "nil"]
    /\ dr' = [dr EXCEPT ![d].pc = "done"]
    /\ rbPc' = next
    /\ UNCHANGED <<rbCfg, rbResult, proc, out, closed, rpos, mu, sink,
                   synced, console, sinkStart, produced, buildVars>>

\* runBinary receiving from doneE first
RbRecvSFromStderr == Recv("stderr", "recvS", "recvE")

\* line 347: errS := <-doneS
RbRecvS == Recv("stdout", "recvS", "recvE")

\* runBinary going on to cmd.Wait without the receive from doneE
RbRecvENoWait ==
    /\ rbPc = "recvE"
    /\ rbPc' = "wait"
    /\ UNCHANGED <<rbCfg, rbResult, proc, out, closed, rpos, dr, errOf, mu, sink,
                   synced, console, sinkStart, produced, buildVars>>

\* line 348: errE := <-doneE
RbRecvE == Recv("stderr", "recvE", "wait")

\* lines 350-368: cmd.Wait() returns once the child has exited; the exit code
\* is read and the result built
RbWait ==
    /\ rbPc = "wait"
    /\ proc = "exited"
    /\ \E st \in ExitStatuses :
          rbResult' = [diag |-> Diagnostic(st.err, errOf["stdout"], errOf["stderr"]),
                       rc   |-> st.rc]
    /\ rbPc' = "ret"
    /\ UNCHANGED <<rbCfg, proc, out, closed, rpos, dr, errOf, mu, sink,
                   synced, console, sinkStart, produced, buildVars>>

\* the steps of one drainer goroutine: the closure f, lines 316-339
Drainer(d) ==
    \/ DrRead(d)
    \/ DrLock(d)
    \/ DrWrite(d)
    \/ DrSync(d)
    \/ DrEcho(d)
    \/ DrUnlock(d)

\* the steps inside runBinary and of its child
RunBinary ==
    \/ RbAttachFail
    \/ RbStart
    \/ \E d \in Streams : ChildClose(d)
    \/ ChildExit
    \/ \E d \in Streams : Drainer(d)
    \/ RbRecvS
    \/ RbRecvE
    \/ RbWait

\* the driver runs a command through c.runBinary
DriverRunBinary(c) ==
    /\ rbPc = "idle"
    /\ coPc = "idle"
    /\ ~halted
    /\ RbEnter(c)
    /\ UNCHANGED buildVars

\* runBinary's result reaches the driver
DriverReturn ==
    /\ rbPc = "ret"
    /\ RbLeave
    /\ UNCHANGED buildVars

\* ------------------------------------------------------------------------
\* createFilesForLater, compileOne, runOtherBenchmarks
\* ------------------------------------------------------------------------

\* an entry of the trace of one compileOne call
Event(ev, k, res) == [ev |-> ev, k |-> k, res |-> res]

\* createFilesForLater without the test of config.Disabled: the files are
\* created again and Disabled is set from the outcome
createFilesForLaterAgain(c) ==
    /\ coPc = "idle"
    /\ rbPc = "idle"
    /\ ~halted
    /\ \E created \in SUBSET ({"build"} \cup {AfterBuild(c)[i] : i \in 1..Len(AfterBuild(c))}) :
          /\ cfgDisabled' = [cfgDisabled EXCEPT ![c] = "build" \notin created]
          /\ files' = [files EXCEPT ![c] =
                         [f \in FileNames |->
                             IF f \notin created THEN files[c][f]
                             ELSE IF f = "build"
                                  THEN [exists |-> TRUE, data |-> <<"goos", "goarch">>]
                                  ELSE EmptyFile]]
    /\ UNCHANGED <<benchDisabled, buildStats, halted, inVars, coVars, rbVars>>

\* lines 76-100: config.createFilesForLater().  os.Create truncates a file
\* that exists; when it fails the file stays as it was.
createFilesForLater(c) ==
    /\ coPc = "idle"
    /\ rbPc = "idle"
    /\ ~halted
    /\ IF cfgDisabled[c]
       THEN UNCHANGED <<cfgDisabled, files>>
       ELSE \E created \in SUBSET ({"build"} \cup {AfterBuild(c)[i] : i \in 1..Len(AfterBuild(c))}) :
              /\ cfgDisabled' = [cfgDisabled EXCEPT ![c] = "build" \notin created]
              /\ files' = [files EXCEPT ![c] =
                             [f \in FileNames |->
                                 IF f \notin created THEN files[c][f]
                                 ELSE IF f = "build"
                                      THEN [exists |-> TRUE, data |-> <<"goos", "goarch">>]
                                      ELSE EmptyFile]]
    /\ UNCHANGED <<benchDisabled, buildStats, halted, inVars, coVars, rbVars>>

\* lines 152-156: the driver calls config.compileOne(bench, cwd, count)
CoCall(c, b, count) ==
    /\ coPc = "idle"
    /\ rbPc = "idle"
    /\ ~halted
    /\ Len(buildStats[c]) < MaxStats
    /\ coPc' = IF explicitAll # 1 THEN "clean" ELSE "compile"
    /\ coCfg' = c
    /\ coBench' = b
    /\ coCount' = count
    /\ coResult' = ""
    /\ abIdx' = 0
    /\ handles' = 0
    /\ trace' = <<>>
    /\ coPre' = [stats |-> buildStats[c], files |-> files[c],
                 bDis |-> benchDisabled[b], cDis |-> cfgDisabled[c]]
    /\ UNCHANGED <<inVars, progVars, rbVars>>

\* everything a call of runBinary can have appended to the sink when its
\* child produces at most n bytes: bytes of the two streams, those of one
\* stream in the order of the stream
Writes(n) ==
    { w \in UNION {[1..k -> Streams \X (1..n)] : k \in 0..n} :
        \A i \in 1..Len(w), j \in 1..Len(w) :
            (i < j /\ w[i][1] = w[j][1]) => w[i][2] < w[j][2] }

\* runBinary as its caller sees it (lines 289-369): what it returns and what
\* it has appended to the sink by then, for a child of at most n bytes
RunBinaryReturns(n) ==
    { [diag |-> "Error [" \o what \o "] running", rc |-> 0, wrote |-> <<>>] :
          what \in {"stdoutpipe", "stderrpipe", "command start"} }
    \cup
    { [diag |-> Diagnostic(st.err, e[1], e[2]), rc |-> st.rc, wrote |-> w] :
          st \in ExitStatuses, e \in {"nil", "err"} \X {"nil", "err"}, w \in Writes(n) }

\* CoClean giving up on a diagnostic: the benchmark is disabled and
\* compileOne returns
CoCleanFatal ==
    /\ coPc = "clean"
    /\ rbPc = "idle"
    /\ \E r \in RunBinaryReturns(MaxCleanOut - produced) :
          /\ trace' = Append(trace, Event("clean", 0, IF r.diag = "" THEN "ok" ELSE "fail"))
          /\ sink' = [sink EXCEPT ![coCfg] = @ \o r.wrote]
          /\ synced' = [synced EXCEPT ![coCfg] = Len(sink[coCfg]) + Len(r.wrote)]
          /\ produced' = produced + Len(r.wrote)
          /\ coPc' = IF r.diag = "" THEN "compile" ELSE "ret"
          /\ benchDisabled' = [benchDisabled EXCEPT ![coBench] = @ \/ r.diag # ""]
    /\ UNCHANGED <<coCfg, coBench, coCount, coResult, abIdx, handles, coPre, inVars,
                   cfgDisabled, buildStats, files, halted, rbPc, rbCfg, rbResult,
                   proc, out, closed, rpos, dr, errOf, mu, console, sinkStart>>

\* lines 157-173: `go clean -cache` is run through config.runBinary; a
\* diagnostic is printed, no more
CoClean ==
    /\ coPc = "clean"
    /\ rbPc = "idle"
    /\ \E r \in RunBinaryReturns(MaxCleanOut - produced) :
          /\ trace' = Append(trace, Event("clean", 0, IF r.diag = "" THEN "ok" ELSE "fail"))
          /\ sink' = [sink EXCEPT ![coCfg] = @ \o r.wrote]
          /\ synced' = [synced EXCEPT ![coCfg] = Len(sink[coCfg]) + Len(r.wrote)]
          /\ produced' = produced + Len(r.wrote)
    /\ coPc' = "compile"
    /\ UNCHANGED <<coCfg, coBench, coCount, coResult, abIdx, handles, coPre, inVars,
                   progVars, rbPc, rbCfg, rbResult, proc, out, closed, rpos, dr,
                   errOf, mu, console, sinkStart>>

\* CoCompileFail ending the process instead of returning the diagnostic
CoCompileFailExits ==
    /\ coPc = "compile"
    /\ \E e \in {"ExitError", "other"} :
          trace' = Append(trace, Event("compile", 0, e))
    /\ benchDisabled' = [benchDisabled EXCEPT ![coBench] = TRUE]
    /\ halted' = TRUE
    /\ coPc' = "exit"
    /\ UNCHANGED <<coCfg, coBench, coCount, coResult, abIdx, handles, coPre, cfgDisabled,
                   buildStats, files, inVars, rbVars>>

\* lines 175-222: `go test -c` is run with CombinedOutput and fails (an
\* *exec.ExitError or another error); the benchmark is disabled and
\* compileOne returns the diagnostic
CoCompileFail ==
    /\ coPc = "compile"
    /\ \E e \in {"ExitError", "other"} :
          trace' = Append(trace, Event("compile", 0, e))
    /\ benchDisabled' = [benchDisabled EXCEPT ![coBench] = TRUE]
    /\ coResult' = "There was an error running 'go test'"
    /\ coPc' = "ret"
    /\ UNCHANGED <<coCfg, coBench, coCount, abIdx, handles, coPre, cfgDisabled, buildStats,
                   files, halted, inVars, rbVars>>

\* lines 175-210, 223-230: `go test -c` succeeds; its BenchStat is appended
CoCompileOk ==
    /\ coPc = "compile"
    /\ trace' = Append(trace, Event("compile", 0, "ok"))
    /\ buildStats' = [buildStats EXCEPT ![coCfg] = Append(@, coBench)]
    /\ coPc' = "record"
    /\ UNCHANGED <<coCfg, coBench, coCount, coResult, abIdx, handles, coPre, cfgDisabled,
                   benchDisabled, files, halted, inVars, rbVars>>

\* lines 234-248: what compileOne writes to the build log for bench b: the
\* summary line, after a goarch line when GOARCH of the configuration's GcEnv
\* is set and is not runtime.GOARCH
BuildRecord(c, b) ==
    (IF cfgGoArch[c] # "host" /\ cfgGoArch[c] # ""
     THEN <<"goarch: host-" \o cfgGoArch[c]>> ELSE <<>>)
    \o << <<"Benchmark", b>> >>

\* CoRecord going on to runOtherBenchmarks whatever count is
CoRecordThenAlwaysAfter ==
    /\ coPc = "record"
    /\ files[coCfg]["build"].exists
    /\ files' = [files EXCEPT ![coCfg]["build"].data = @ \o BuildRecord(coCfg, coBench)]
    /\ coPc' = "after"
    /\ UNCHANGED <<coCfg, coBench, coCount, coResult, abIdx, handles, trace, coPre,
                   cfgDisabled, benchDisabled, buildStats, halted, inVars,
                   rbVars>>

\* CoRecord opening the build log without O_APPEND: the record is written
\* over the old contents
CoRecordOverwrites ==
    /\ coPc = "record"
    /\ files[coCfg]["build"].exists
    /\ files' = [files EXCEPT ![coCfg]["build"].data = BuildRecord(coCfg, coBench)]
    /\ coPc' = IF coCount = 0 THEN "after" ELSE "ret"
    /\ UNCHANGED <<coCfg, coBench, coCount, coResult, abIdx, handles, trace, coPre,
                   cfgDisabled, benchDisabled, buildStats, halted, inVars,
                   rbVars>>

\* CoRecord writing the summary line alone, whatever GOARCH is
CoRecordSummaryOnly ==
    /\ coPc = "record"
    /\ files[coCfg]["build"].exists
    /\ files' = [files EXCEPT ![coCfg]["build"].data = Append(@, <<"Benchmark", coBench>>)]
    /\ coPc' = IF coCount = 0 THEN "after" ELSE "ret"
    /\ UNCHANGED <<coCfg, coBench, coCount, coResult, abIdx, handles, trace, coPre,
                   cfgDisabled, benchDisabled, buildStats, halted, inVars,
                   rbVars>>

\* lines 249-257, 273: the build log is opened for append (it has to exist),
\* the record written, the file synced and closed
CoRecord ==
    /\ coPc = "record"
    /\ files[coCfg]["build"].exists
    /\ files' = [files EXCEPT ![coCfg]["build"].data = @ \o BuildRecord(coCfg, coBench)]
    /\ coPc' = IF coCount = 0 THEN "after" ELSE "ret"
    /\ UNCHANGED <<coCfg, coBench, coCount, coResult, abIdx, handles, trace, coPre,
                   cfgDisabled, benchDisabled, buildStats, halted, inVars,
                   rbVars>>

\* lines 249-254: the build log cannot be opened for append; os.Exit(2)
CoRecordExit ==
    /\ coPc = "record"
    /\ halted' = TRUE
    /\ coPc' = "exit"
    /\ UNCHANGED <<coCfg, coBench, coCount, coResult, abIdx, handles, trace, coPre,
                   cfgDisabled, benchDisabled, buildStats, files, inVars,
                   rbVars>>

\* RoEnter without the test of config.Disabled
RoEnterAlways ==
    /\ coPc = "after"
    /\ coPc' = "loop"
    /\ abIdx' = 1
    /\ UNCHANGED <<coCfg, coBench, coCount, coResult, handles, trace, coPre, inVars,
                   progVars, rbVars>>

\* lines 269-271, 102-106: count == 0, config.runOtherBenchmarks(bench, cwd)
\* is entered; it returns at once when the configuration is disabled
RoEnter ==
    /\ coPc = "after"
    /\ coPc' = IF cfgDisabled[coCfg] THEN "ret" ELSE "loop"
    /\ abIdx' = 1
    /\ UNCHANGED <<coCfg, coBench, coCount, coResult, handles, trace, coPre, inVars,
                   progVars, rbVars>>

\* the command of the current iteration of the loop of runOtherBenchmarks
RoCmd == AfterBuild(coCfg)[abIdx]

\* the loop of runOtherBenchmarks is at a command
RoAt == coPc = "loop" /\ abIdx <= Len(AfterBuild(coCfg))

\* what all iterations leave alone
RoKeep == UNCHANGED <<coPc, coCfg, coBench, coCount, coResult, coPre, cfgDisabled,
                      benchDisabled, buildStats, halted, inVars, rbVars>>

\* lines 108-114: the command's log file cannot be opened for append
RoOpenFail ==
    /\ RoAt
    /\ trace' = Append(trace, Event("aux", abIdx, "noopen"))
    /\ abIdx' = abIdx + 1
    /\ UNCHANGED <<files, handles>>
    /\ RoKeep

\* lines 108-121: the file is open, the benchmark is disabled: on to the next
\* command, the file left open
RoSkip ==
    /\ RoAt
    /\ files[coCfg][RoCmd].exists
    /\ benchDisabled[coBench]
    /\ trace' = Append(trace, Event("aux", abIdx, "skip"))
    /\ handles' = handles + 1
    /\ abIdx' = abIdx + 1
    /\ UNCHANGED files
    /\ RoKeep

\* RoCmdFail returning from runOtherBenchmarks instead of going on
RoCmdFailAborts ==
    /\ RoAt
    /\ files[coCfg][RoCmd].exists
    /\ ~benchDisabled[coBench]
    /\ trace' = Append(trace, Event("aux", abIdx, "fail"))
    /\ handles' = handles + 1
    /\ abIdx' = abIdx + 1
    /\ coPc' = "ret"
    /\ UNCHANGED <<files, coCfg, coBench, coCount, coResult, coPre, cfgDisabled,
                   benchDisabled, buildStats, halted, inVars, rbVars>>

\* lines 108-145: the file is open, the command is run with CombinedOutput
\* and fails: on to the next command, nothing written, the file left open
RoCmdFail ==
    /\ RoAt
    /\ files[coCfg][RoCmd].exists
    /\ ~benchDisabled[coBench]
    /\ trace' = Append(trace, Event("aux", abIdx, "fail"))
    /\ handles' = handles + 1
    /\ abIdx' = abIdx + 1
    /\ UNCHANGED files
    /\ RoKeep

\* RoCmdOk without the test of b.Disabled
RoCmdOkIgnoresDisabled ==
    /\ RoAt
    /\ files[coCfg][RoCmd].exists
    /\ trace' = Append(trace, Event("aux", abIdx, "ok"))
    /\ files' = [files EXCEPT ![coCfg][RoCmd].data = Append(@, <<"output", RoCmd, coBench>>)]
    /\ abIdx' = abIdx + 1
    /\ UNCHANGED handles
    /\ RoKeep

\* lines 108-148: the file is open, the command is run and succeeds: its
\* output is written, the file synced and closed
RoCmdOk ==
    /\ RoAt
    /\ files[coCfg][RoCmd].exists
    /\ ~benchDisabled[coBench]
    /\ trace' = Append(trace, Event("aux", abIdx, "ok"))
    /\ files' = [files EXCEPT ![coCfg][RoCmd].data = Append(@, <<"output", RoCmd, coBench>>)]
    /\ abIdx' = abIdx + 1
    /\ UNCHANGED handles
    /\ RoKeep

\* lines 149-150, 273: the loop is over, runOtherBenchmarks returns and
\* compileOne returns ""
RoDone ==
    /\ coPc = "loop"
    /\ abIdx > Len(AfterBuild(coCfg))
    /\ coPc' = "ret"
    /\ UNCHANGED <<coCfg, coBench, coCount, coResult, abIdx, handles, trace, coPre, inVars,
                   progVars, rbVars>>

\* compileOne's result reaches the driver (with the deferred cleanup, line 206)
CoReturn ==
    /\ coPc = "ret"
    /\ coPc' = "idle"
    /\ coCfg' = "c1"
    /\ coBench' = "b1"
    /\ coCount' = 0
    /\ abIdx' = 0
    /\ handles' = 0
    /\ trace' = <<>>
    /\ coPre' = NoPre
    /\ coResult' = ""
    /\ UNCHANGED <<inVars, progVars, rbVars>>

\* the steps of runOtherBenchmarks
runOtherBenchmarks ==
    \/ RoEnter
    \/ RoOpenFail
    \/ RoSkip
    \/ RoCmdFail
    \/ RoCmdOk
    \/ RoDone

\* the steps of compileOne after its call
compileOne ==
    \/ CoClean
    \/ CoCompileFail
    \/ CoCompileOk
    \/ CoRecord
    \/ CoRecordExit
    \/ runOtherBenchmarks
    \/ CoReturn

\* the engine under a driver that sets configurations up and builds
\* benchmarks, in any order
Next ==
    \/ \E c \in Configs : createFilesForLater(c)
    \/ \E c \in Configs, b \in Benchs, count \in {0, 1} : CoCall(c, b, count)
    \/ compileOne

Spec == Init /\ [][Next]_vars

\* ------------------------------------------------------------------------
\* The environment of the commands
\* ------------------------------------------------------------------------

\* replaceEnv(env, ev, evv): env without its definitions of ev, then ev=evv
replaceEnv(env, ev, evv) ==
    SelectSeq(env, LAMBDA e : e[1] # ev) \o << <<ev, evv>> >>

\* replaceEnvs(env, newevs): the definitions of newevs replaced or added, one
\* after the other
RECURSIVE replaceEnvs(_, _)
replaceEnvs(env, newevs) ==
    IF newevs = <<>> THEN env
    ELSE replaceEnvs(replaceEnv(env, Head(newevs)[1], Head(newevs)[2]), Tail(newevs))

\* CompileEnv with the two override lists applied the other way round
CompileEnvBenchLast ==
    LET e1 == IF ~benchNotSandboxed THEN replaceEnv(defaultEnv, "GOOS", "linux")
              ELSE defaultEnv
        e2 == IF rootCopy # "" THEN replaceEnv(e1, "GOROOT", rootCopy) ELSE e1
    IN  replaceEnvs(replaceEnvs(e2, cfgGcEnv), benchGcEnv)

\* lines 190-198 (and 159-168 for the cache-clear): cmd.Env in compileOne
CompileEnv ==
    LET e1 == IF ~benchNotSandboxed THEN replaceEnv(defaultEnv, "GOOS", "linux")
              ELSE defaultEnv
        e2 == IF rootCopy # "" THEN replaceEnv(e1, "GOROOT", rootCopy) ELSE e1
    IN  replaceEnvs(replaceEnvs(e2, benchGcEnv), cfgGcEnv)

\* lines 125-131: c.Env in runOtherBenchmarks
AuxEnv ==
    LET e1 == IF ~benchNotSandboxed THEN replaceEnv(defaultEnv, "GOOS", "linux")
              ELSE defaultEnv
    IN  replaceEnvs(replaceEnvs(e1, benchGcEnv), cfgGcEnv)

\* the environment of a command is built; the inputs stay
EnvBuilt(for, env) ==
    /\ cmdEnv.for # for
    /\ cmdEnv' = [for |-> for, env |-> env]
    /\ UNCHANGED <<explicitAll, cfgGoArch, envIn, progVars, coVars, rbVars>>

\* lines 158-166
EnvClean == EnvBuilt("clean", CompileEnv)

\* lines 175, 190-198
EnvCompile == EnvBuilt("compile", CompileEnv)

\* lines 123-131
EnvAux == EnvBuilt("aux", AuxEnv)

NextEnv ==
    \/ EnvClean
    \/ EnvCompile
    \/ EnvAux

\* any default environment, any benchmark and configuration settings
InitEnv ==
    /\ explicitAll = 0
    /\ cfgGoArch = [c \in Configs |-> ""]
    /\ InitState
    /\ defaultEnv \in DefaultEnvs
    /\ benchNotSandboxed \in BOOLEAN
    /\ rootCopy \in {"", "copy"}
    /\ benchGcEnv \in EnvLists
    /\ cfgGcEnv \in EnvLists
    /\ cmdEnv = NoCmdEnv

SpecEnv == InitEnv /\ [][NextEnv]_vars

\* compileOne's view of runBinary covers every return of runBinary
RunBinaryReturnsSound ==
    rbPc = "ret" =>
        [diag |-> rbResult.diag, rc |-> rbResult.rc,
         wrote |-> SubSeq(sink[rbCfg], sinkStart + 1, Len(sink[rbCfg]))]
            \in RunBinaryReturns(MaxOut)

\* the engine as the command runner alone: the driver runs commands
NextRun ==
    \/ \E c \in Configs : DriverRunBinary(c)
    \/ DriverReturn
    \/ RunBinary

\* one setting of the inputs runBinary does not read
InitRun ==
    /\ Init
    /\ explicitAll = 0

SpecRun == InitRun /\ [][NextRun]_vars

\* the Go scheduler runs every goroutine that can take a step: each drainer,
\* and runBinary at its receives and at cmd.Wait once the child has exited
FairRun ==
    /\ \A d \in Streams : WF_vars(Drainer(d))
    /\ WF_vars(RbRecvS)
    /\ WF_vars(RbRecvE)
    /\ WF_vars(RbWait)

\* the command runner under fair scheduling
SpecRunFair == InitRun /\ [][NextRun]_vars /\ FairRun

\* ------------------------------------------------------------------------
\* Properties of runBinary and its drainers, under SpecRun
\* ------------------------------------------------------------------------

\* what this invocation's drainers have appended to the sink
NewSink == SubSeq(sink[rbCfg], sinkStart + 1, Len(sink[rbCfg]))

\* drainer d is between mu.Lock() and mu.Unlock()
InSection(d) == dr[d].pc \in {"write", "sync", "echo", "unlock"}

\* the elements of a sequence
Range(w) == {w[i] : i \in 1..Len(w)}

\* the bytes of stream d in w
Restrict(w, d) == SelectSeq(w, LAMBDA t : t[1] = d)

\* the first n bytes of stream d, in order
StreamBytes(d, n) == [i \in 1..n |-> <<d, i>>]

\* the bytes of the chunks echoed, in the order of the echoes
RECURSIVE Flat(_)
Flat(chunks) ==
    IF chunks = <<>> THEN <<>>
    ELSE [i \in 1..Head(chunks)[3] |-> <<Head(chunks)[1], Head(chunks)[2] + i>>]
         \o Flat(Tail(chunks))

\* a is b with some elements left out
RECURSIVE IsSubSeq(_, _)
IsSubSeq(a, b) ==
    IF a = <<>> THEN TRUE
    ELSE IF b = <<>> THEN FALSE
    ELSE IF Head(a) = Head(b) THEN IsSubSeq(Tail(a), Tail(b))
    ELSE IsSubSeq(a, Tail(b))

\* what drainer d has put, or is putting, on its done channel
Signal(d) ==
    IF dr[d].pc = "sendErr" THEN "err"
    ELSE IF dr[d].pc = "sendNil" THEN "nil"
    ELSE IF dr[d].pc = "done" THEN errOf[d]
    ELSE "none"

\* C1: once the child has been started, runBinary has returned only when the
\* child has exited and both drainers have signalled completion; and after
\* runBinary has returned nothing more is appended to the sink.
C1_ReturnsAfterExitAndDrain ==
    /\ [](rbPc = "ret" /\ proc # "none"
            => proc = "exited" /\ \A d \in Streams : dr[d].pc = "done")
    /\ [][(rbPc \in {"ret", "idle"}) => (sink' = sink)]_vars

C1_Witness ==
    /\ rbPc = "ret"
    /\ proc = "exited"
    /\ \A d \in Streams : dr[d].pc = "done" /\ Restrict(NewSink, d) # <<>>

\* C2: the two drainers are never both between Lock and Unlock, the one that
\* is there holds the mutex, and outside the write sections the sink is synced
\* and holds the chunks whole and in the order they were echoed to the console.
C2_WriteSectionExclusive ==
    /\ ~(InSection("stdout") /\ InSection("stderr"))
    /\ \A d \in Streams : InSection(d) => mu = d
    /\ (rbPc # "idle" /\ mu = "free")
          => /\ synced[rbCfg] = Len(sink[rbCfg])
             /\ IsSubSeq(NewSink, Flat(console))

C2_Witness ==
    /\ dr["stdout"].pc = "lock"
    /\ dr["stderr"].pc = "sync"
    /\ dr["stderr"].nw > 0
    /\ console # <<>>

\* stream d ended normally: the drainer left its loop on io.EOF
EndedNormally(d) == dr[d].pc = "done" /\ dr[d].err = "EOF"

\* the sink has grown by every byte of the child's output, the bytes of each
\* stream in the order of the stream
AllOutputLogged ==
    /\ Len(NewSink) = Len(out["stdout"]) + Len(out["stderr"])
    /\ \A d \in Streams : Restrict(NewSink, d) = StreamBytes(d, Len(out[d]))

C4_Original ==
    \A d \in Streams :
        /\ dr[d].err = "EOF" => Signal(d) \in {"none", "nil"}
        /\ dr[d].err = "err" => /\ ~InSection(d) /\ dr[d].pc # "lock"
                                /\ Signal(d) \in {"none", "err"}
                                /\ dr[d].nw = 0

\* C5 as claimed: runBinary returns a non-empty diagnostic whenever a pipe
\* could not be attached, the child could not be started, the exit status is
\* not 0, or a read of either stream failed; an exit code comes with it.
C5_Claim ==
    rbPc = "ret" =>
        /\ rbResult.rc \in {-1, 0, 1}
        /\ (proc = "none" \/ rbResult.rc # 0 \/ \E d \in Streams : dr[d].err = "err")
              => rbResult.diag # ""

\* ------------------------------------------------------------------------
\* Properties of compileOne and runOtherBenchmarks, under Spec
\* ------------------------------------------------------------------------

\* the compiler invocation of the current call succeeded / failed
CompileOk == \E i \in 1..Len(trace) : trace[i].ev = "compile" /\ trace[i].res = "ok"

CompileFailed == \E i \in 1..Len(trace) : trace[i].ev = "compile" /\ trace[i].res # "ok"

\* the auxiliary commands of AfterBuild the current call has started
AuxStarted == {trace[i].k : i \in {j \in 1..Len(trace) :
                    trace[j].ev = "aux" /\ trace[j].res \in {"ok", "fail"}}}

\* the auxiliary commands the current call has come to, with the outcome res
AuxWith(res) == {trace[i].k : i \in {j \in 1..Len(trace) :
                    trace[j].ev = "aux" /\ trace[j].res = res}}

\* the build log of the configuration of the current call, now and at the call
BuildLog == files[coCfg]["build"].data

BuildLogPre == coPre.files["build"].data

\* C6 as claimed: a compileOne call whose compiler invocation succeeded has,
\* when it returns, appended exactly one BenchStat and exactly one line to the
\* build log, and left the benchmark's Disabled flag as it was.
C6_Original ==
    (coPc = "ret" /\ CompileOk) =>
        /\ Len(buildStats[coCfg]) = Len(coPre.stats) + 1
        /\ Len(BuildLog) = Len(BuildLogPre) + 1
        /\ benchDisabled[coBench] = coPre.bDis

\* C6 amended: a compileOne call whose compiler invocation succeeded appends
\* exactly one BenchStat and leaves the benchmark's Disabled flag as it was;
\* when it returns it has appended to the build log the summary line, and
\* before it one "goarch:" line when the configuration's GOARCH is set and is
\* not the host's; when the build log cannot be opened the process exits with
\* the BenchStat appended and nothing written.
C6_SuccessfulBuildRecorded ==
    CompileOk =>
        /\ buildStats[coCfg] = Append(coPre.stats, coBench)
        /\ benchDisabled[coBench] = coPre.bDis
        /\ coPc \in {"record", "exit"} => files[coCfg] = coPre.files
        /\ coPc \notin {"record", "exit"} =>
              /\ BuildLog = BuildLogPre \o BuildRecord(coCfg, coBench)
              /\ Len(BuildRecord(coCfg, coBench)) =
                    (IF cfgGoArch[coCfg] \in {"", "host"} THEN 1 ELSE 2)

C6_Witness ==
    /\ coPc = "ret"
    /\ CompileOk
    /\ cfgGoArch[coCfg] = "other"
    /\ Len(BuildLog) = Len(BuildLogPre) + 2
    /\ BuildLog[Len(BuildLog)] = <<"Benchmark", coBench>>

\* C7: a compileOne call whose compiler invocation failed has appended no
\* BenchStat and nothing to the build log, has set the benchmark's Disabled
\* flag and has started no auxiliary command; the flag once set stays set, and
\* no call made with the flag set starts an auxiliary command.
C7_FailedBuildDisables ==
    /\ [](/\ CompileFailed =>
                /\ coPc = "ret"
                /\ buildStats[coCfg] = coPre.stats
                /\ files[coCfg] = coPre.files
                /\ benchDisabled[coBench]
                /\ AuxStarted = {}
          /\ coPre.bDis => AuxStarted = {})
    /\ [][\A b \in Benchs : benchDisabled[b] => benchDisabled'[b]]_vars

C7_Witness ==
    /\ coPc = "ret"
    /\ CompileFailed
    /\ ~coPre.bDis
    /\ coCount = 0
    /\ coCfg = "c1"
    /\ \A f \in FileNames : files["c1"][f].exists

\* C8 as claimed: a compileOne call for a benchmark that is already disabled
\* starts no external process, neither the cache-clear nor the compiler.
C8_Claim ==
    (coPc # "idle" /\ coPre.bDis) => trace = <<>>

\* C9: no auxiliary command is started when the configuration or the
\* benchmark is disabled, and runOtherBenchmarks is entered only in a call
\* whose compiler invocation succeeded.
C9_AuxOnlyWhenEnabledAndBuilt ==
    /\ AuxStarted # {} => ~cfgDisabled[coCfg] /\ ~benchDisabled[coBench]
    /\ (coPc \in {"after", "loop"} \/ abIdx > 0) => CompileOk /\ coCount = 0

C9_Witness ==
    /\ coPc = "ret"
    /\ CompileOk
    /\ coCount = 0
    /\ coCfg = "c1"
    /\ cfgDisabled["c1"]
    /\ \A f \in FileNames : files["c1"][f].exists
    /\ abIdx = 1
    /\ trace[Len(trace)].ev = "compile"

\* C10: when runOtherBenchmarks returns after one of its commands failed,
\* the log file of the failed command is as it was at the call, both Disabled
\* flags are as they were at the call, and the loop has come to every command
\* of AfterBuild.
C10_AuxFailureIsLocal ==
    (coPc = "ret" /\ AuxWith("fail") # {}) =>
        /\ \A k \in AuxWith("fail") :
              files[coCfg][AfterBuild(coCfg)[k]] = coPre.files[AfterBuild(coCfg)[k]]
        /\ benchDisabled[coBench] = coPre.bDis
        /\ cfgDisabled[coCfg] = coPre.cDis
        /\ \A k \in 1..Len(AfterBuild(coCfg)) :
              \E i \in 1..Len(trace) : trace[i].ev = "aux" /\ trace[i].k = k

C10_Witness ==
    /\ coPc = "ret"
    /\ AuxWith("fail") = {1}
    /\ AuxWith("ok") = {2}
    /\ files[coCfg]["nm"].data # coPre.files["nm"].data

\* the flags are as they were when the current call was made
FlagsAsAtCall ==
    /\ benchDisabled[coBench] = coPre.bDis
    /\ cfgDisabled[coCfg] = coPre.cDis

\* the first external command of the current call was the cache-clear and it
\* gave a diagnostic
CleanFailed == trace # <<>> /\ trace[1] = Event("clean", 0, "fail")

\* C11: no step of createFilesForLater, compileOne or runOtherBenchmarks sets
\* a Disabled flag that is true back to false, be it a Configuration's or a
\* Benchmark's.
C11_DisablingIsOneWay ==
    [][/\ \A c \in Configs : cfgDisabled[c] => cfgDisabled'[c]
       /\ \A b \in Benchs : benchDisabled[b] => benchDisabled'[b]]_vars

C11_Witness ==
    /\ cfgDisabled["c1"]
    /\ benchDisabled["b1"]
    /\ files["c1"]["build"].exists
    /\ coPc = "ret"
    /\ coCfg = "c1"
    /\ CompileOk
    /\ coPre.cDis
    /\ coPre.bDis

C13_CleanFailureNotFatal ==
    CleanFailed =>
        \/ coPc = "compile" /\ Len(trace) = 1 /\ FlagsAsAtCall
        \/ Len(trace) >= 2 /\ trace[2].ev = "compile" /\ cfgDisabled[coCfg] = coPre.cDis

C13_Witness ==
    /\ coPc = "ret"
    /\ CleanFailed
    /\ CompileOk
    /\ FlagsAsAtCall
    /\ Len(BuildLog) > Len(BuildLogPre)

\* C14 as claimed: a compileOne call for a configuration that was disabled by
\* createFilesForLater starts no external command: no cache-clear, no compiler
\* invocation and no auxiliary command.
C14_Claim ==
    (coPc # "idle" /\ coPre.cDis) => trace = <<>>

\* C15: the process is terminated only by compileOne when it cannot open the
\* build log after a successful compiler invocation: then nothing has been
\* written to the log; a cache-clear failure, a compiler failure or an
\* auxiliary command's failure leaves the process running.
C15_OnlyExitIsBuildLogReopen ==
    /\ [](halted => /\ coPc = "exit"
                    /\ CompileOk
                    /\ trace[Len(trace)] = Event("compile", 0, "ok")
                    /\ files[coCfg] = coPre.files)
    /\ [](~halted => coPc # "exit")
    /\ [][halted' # halted => coPc = "record" /\ halted']_vars

C15_Witness ==
    /\ halted
    /\ CleanFailed
    /\ coPre.bDis

\* what the current call has done to the auxiliary log files
AuxFilesAsAtCall ==
    \A k \in 1..Len(AfterBuild(coCfg)) :
        files[coCfg][AfterBuild(coCfg)[k]] = coPre.files[AfterBuild(coCfg)[k]]

\* C17 (under SpecRun): runBinary receives from doneS, then from doneE, then
\* waits for the process: while it is at the second receive the stdout drainer
\* has signalled, while it is at cmd.Wait both have, and it moves only from
\* one of these to the next.
C17_JoinOrder ==
    /\ [](rbPc = "recvE" => dr["stdout"].pc = "done" /\ dr["stderr"].pc # "done")
    /\ [](rbPc = "wait" => \A d \in Streams : dr[d].pc = "done")
    /\ [][/\ rbPc = "recvS" => rbPc' \in {"recvS", "recvE"}
          /\ rbPc = "recvE" => rbPc' \in {"recvE", "wait"}
          /\ rbPc = "wait" => rbPc' \in {"wait", "ret"}
          /\ rbPc' = "wait" => rbPc \in {"recvE", "wait"}]_vars

C17_Witness ==
    /\ rbPc = "wait"
    /\ proc = "running"
    /\ errOf["stdout"] = "nil"
    /\ errOf["stderr"] = "err"
    /\ \A d \in Streams : dr[d].pc = "done"

C19_Claim ==
    coPc = "ret" => handles = 0

\* ------------------------------------------------------------------------
\* Properties of the environment of the commands, under SpecEnv
\* ------------------------------------------------------------------------

\* list defines key k
HasKey(list, k) == \E i \in 1..Len(list) : list[i][1] = k

\* the value of the last definition of k in list, "" if there is none
LastValue(list, k) ==
    IF ~HasKey(list, k) THEN ""
    ELSE list[CHOOSE i \in 1..Len(list) :
                 /\ list[i][1] = k
                 /\ \A j \in (i + 1)..Len(list) : list[j][1] # k][2]

\* how many definitions of k list has
Definitions(list, k) == Len(SelectSeq(list, LAMBDA e : e[1] = k))

\* what the layers give for key k in the command built for `for`, the later
\* layer first
Effective(for, k) ==
    IF HasKey(cfgGcEnv, k) THEN LastValue(cfgGcEnv, k)
    ELSE IF HasKey(benchGcEnv, k) THEN LastValue(benchGcEnv, k)
    ELSE IF k = "GOROOT" /\ rootCopy # "" /\ for # "aux" THEN rootCopy
    ELSE IF k = "GOOS" /\ ~benchNotSandboxed THEN "linux"
    ELSE LastValue(defaultEnv, k)

Joining == rbPc \in {"recvS", "recvE", "wait"}

\* C20: if a child that has been started always exits in the end (which
\* closes both streams), then a runBinary that has started its child and its
\* drainers returns in the end, whichever drainer finishes first; and when it
\* returns both drainers have completed their send and ended.
C20_JoinTerminates ==
    /\ ([]<>(proc # "running")) => (Joining ~> (rbPc = "ret"))
    /\ [](rbPc = "ret" /\ proc # "none" => \A d \in Streams : dr[d].pc = "done")

C20_Witness ==
    /\ rbPc = "recvS"
    /\ proc = "running"
    /\ dr["stderr"].pc = "sendNil"
    /\ dr["stderr"].n > 0
    /\ dr["stdout"].pc = "lock"

====
